---------------------------- MODULE Spec2Model ----------------------------
(***************************************************************************)
(* LocalContentGenerator (packages/core/src/core/localContentGenerator.ts) *)
(*                                                                         *)
(* The model follows one generateContentStream call: an async generator    *)
(* that POSTs a request, reads the response body chunk by chunk, decodes   *)
(* the bytes with a streaming TextDecoder, cuts the text into lines at     *)
(* '\n' and yields json[0] for every line 'data: <json array>'.            *)
(*                                                                         *)
(* Text is a sequence of one-character strings.  Bytes are the same        *)
(* strings for ASCII; the two bytes "C3" "A9" encode the character "U+E9". *)
(***************************************************************************)
EXTENDS Naturals, Integers, Sequences, FiniteSets, TLC

(***************************************************************************)
(* Bounds of the exploration.                                              *)
(***************************************************************************)
MaxLines == 2   \* lines the server sends in one response body
MaxBytes == 28  \* bytes of those lines, newlines included
MaxQueue == 1   \* consumer requests (next/return/throw) outstanding at once

(***************************************************************************)
(* TextDecoder (utf-8, non-fatal), decode(value, {stream: true}).          *)
(***************************************************************************)
LeadByte    == "C3"
ContByte    == "A9"
TwoByteChar == "U+E9"
Replacement == "U+FFFD"

\* One byte through the decoder: the characters it emits and the bytes of
\* an incomplete character it keeps.  A byte that cannot continue the kept
\* lead byte makes the decoder emit U+FFFD and take the byte afresh.
DecodeByte(pending, b) ==
  IF pending = <<>>
  THEN IF b = LeadByte THEN [text |-> <<>>, pending |-> <<b>>]
       ELSE IF b = ContByte THEN [text |-> <<Replacement>>, pending |-> <<>>]
       ELSE [text |-> <<b>>, pending |-> <<>>]
  ELSE IF b = ContByte THEN [text |-> <<TwoByteChar>>, pending |-> <<>>]
       ELSE IF b = LeadByte THEN [text |-> <<Replacement>>, pending |-> <<b>>]
       ELSE [text |-> <<Replacement, b>>, pending |-> <<>>]

\* The bytes lo..hi of bytes through the decoder, one after the other (the
\* range is halved to keep the evaluation shallow).
RECURSIVE DecodeRange(_, _, _, _)
DecodeRange(pending, bytes, lo, hi) ==
  IF lo > hi THEN [text |-> <<>>, pending |-> pending]
  ELSE IF lo = hi THEN DecodeByte(pending, bytes[lo])
  ELSE LET mid == (lo + hi) \div 2
           left == DecodeRange(pending, bytes, lo, mid)
           right == DecodeRange(left.pending, bytes, mid + 1, hi) IN
       [text |-> left.text \o right.text, pending |-> right.pending]

\* A decoder that forgets the incomplete character at the end of a chunk
\* (decode without {stream: true}).
DecodeStateless(pending, bytes) ==
  LET r == DecodeRange(<<>>, bytes, 1, Len(bytes)) IN
  [text    |-> IF r.pending = <<>> THEN r.text ELSE Append(r.text, Replacement),
   pending |-> <<>>]

\* decoder.decode(value, { stream: true }): the text of the complete
\* characters, and the bytes of an incomplete one kept for the next call.
Decode(pending, bytes) == DecodeRange(pending, bytes, 1, Len(bytes))

(***************************************************************************)
(* String primitives, 0-based as in JavaScript.                            *)
(***************************************************************************)
Newline == "\n"

\* s.indexOf(ch): the first index of ch, or -1.
IndexOf(s, ch) ==
  LET hits == {i \in 1..Len(s) : s[i] = ch} IN
  IF hits = {} THEN -1
  ELSE (CHOOSE i \in hits : \A j \in hits : i <= j) - 1

\* s.substring(from, to)
Substring(s, from, to) == SubSeq(s, from + 1, to)

\* a substring that starts one character late
SubstringFromLate(s, from) == SubSeq(s, from + 2, Len(s))

\* s.substring(from)
SubstringFrom(s, from) == SubSeq(s, from + 1, Len(s))

\* s.startsWith(prefix)
StartsWith(s, prefix) ==
  /\ Len(s) >= Len(prefix)
  /\ SubSeq(s, 1, Len(prefix)) = prefix

\* the prefix without its space
DataPrefixNoSpace == <<"d", "a", "t", "a", ":">>

DataPrefix == <<"d", "a", "t", "a", ":", " ">>

(***************************************************************************)
(* JSON.parse over the characters of the model: white space, the literals  *)
(* null/true/false, unsigned integers, strings without escapes, arrays and *)
(* objects.  The result of a value is [ok, pos, kind, text, elems]: pos is *)
(* the 1-based index after the value, text the value without insignificant *)
(* white space, elems the texts of the elements when the value is an array.*)
(***************************************************************************)
JsonWs    == {" ", "\t", "\r", "\n"}
Digits    == {"0", "1", "2", "3", "4", "5", "6", "7", "8", "9"}
JsonFail  == [ok |-> FALSE, pos |-> 0, kind |-> "none", text |-> <<>>, elems |-> <<>>]

RECURSIVE SkipWs(_, _)
SkipWs(s, i) ==
  IF i <= Len(s) /\ s[i] \in JsonWs THEN SkipWs(s, i + 1) ELSE i

RECURSIVE DigitsEnd(_, _)
DigitsEnd(s, i) ==
  IF i <= Len(s) /\ s[i] \in Digits THEN DigitsEnd(s, i + 1) ELSE i

\* index of the closing quote of a string whose content starts at i, or 0
RECURSIVE StringEnd(_, _)
StringEnd(s, i) ==
  IF i > Len(s) THEN 0
  ELSE IF s[i] = "\"" THEN i
  ELSE IF s[i] \in {"\t", "\r", "\n", "\\"} THEN 0
  ELSE StringEnd(s, i + 1)

ParseString(s, j) ==
  LET e == StringEnd(s, j + 1) IN
  IF e = 0 THEN JsonFail
  ELSE [ok |-> TRUE, pos |-> e + 1, kind |-> "string",
        text |-> SubSeq(s, j, e), elems |-> <<>>]

ParseLiteral(s, j, lit) ==
  IF j + Len(lit) - 1 <= Len(s) /\ SubSeq(s, j, j + Len(lit) - 1) = lit
  THEN [ok |-> TRUE, pos |-> j + Len(lit), kind |-> "literal",
        text |-> lit, elems |-> <<>>]
  ELSE JsonFail

ParseNumber(s, j) ==
  LET e == IF s[j] = "0" THEN j + 1 ELSE DigitsEnd(s, j) IN
  [ok |-> TRUE, pos |-> e, kind |-> "number",
   text |-> SubSeq(s, j, e - 1), elems |-> <<>>]

RECURSIVE JoinTexts(_)
JoinTexts(ts) ==
  IF ts = <<>> THEN <<>>
  ELSE IF Len(ts) = 1 THEN ts[1]
  ELSE ts[1] \o <<",">> \o JoinTexts(Tail(ts))

RECURSIVE ParseValue(_, _)
RECURSIVE ParseElements(_, _, _)
RECURSIVE ParseMembers(_, _, _)

\* the elements of an array after '[' or ',': i is where the next one starts
ParseElements(s, i, acc) ==
  LET v == ParseValue(s, i) IN
  IF ~v.ok THEN JsonFail
  ELSE LET k == SkipWs(s, v.pos) IN
    IF k > Len(s) THEN JsonFail
    ELSE IF s[k] = "," THEN ParseElements(s, k + 1, Append(acc, v.text))
    ELSE IF s[k] = "]"
         THEN [ok |-> TRUE, pos |-> k + 1, kind |-> "array",
               text |-> <<"[">> \o JoinTexts(Append(acc, v.text)) \o <<"]">>,
               elems |-> Append(acc, v.text)]
    ELSE JsonFail

\* the members of an object after '{' or ',': i is where the next key starts
ParseMembers(s, i, acc) ==
  LET j == SkipWs(s, i) IN
  IF j > Len(s) \/ s[j] # "\"" THEN JsonFail
  ELSE LET key == ParseString(s, j) IN
    IF ~key.ok THEN JsonFail
    ELSE LET c == SkipWs(s, key.pos) IN
      IF c > Len(s) \/ s[c] # ":" THEN JsonFail
      ELSE LET v == ParseValue(s, c + 1) IN
        IF ~v.ok THEN JsonFail
        ELSE LET k == SkipWs(s, v.pos)
                 m == key.text \o <<":">> \o v.text IN
          IF k > Len(s) THEN JsonFail
          ELSE IF s[k] = "," THEN ParseMembers(s, k + 1, Append(acc, m))
          ELSE IF s[k] = "}"
               THEN [ok |-> TRUE, pos |-> k + 1, kind |-> "object",
                     text |-> <<"{">> \o JoinTexts(Append(acc, m)) \o <<"}">>,
                     elems |-> <<>>]
          ELSE JsonFail

ParseValue(s, i) ==
  LET j == SkipWs(s, i) IN
  IF j > Len(s) THEN JsonFail
  ELSE IF s[j] \in Digits THEN ParseNumber(s, j)
  ELSE IF s[j] = "\"" THEN ParseString(s, j)
  ELSE IF s[j] = "n" THEN ParseLiteral(s, j, <<"n", "u", "l", "l">>)
  ELSE IF s[j] = "t" THEN ParseLiteral(s, j, <<"t", "r", "u", "e">>)
  ELSE IF s[j] = "f" THEN ParseLiteral(s, j, <<"f", "a", "l", "s", "e">>)
  ELSE IF s[j] = "["
       THEN LET k == SkipWs(s, j + 1) IN
            IF k <= Len(s) /\ s[k] = "]"
            THEN [ok |-> TRUE, pos |-> k + 1, kind |-> "array",
                  text |-> <<"[", "]">>, elems |-> <<>>]
            ELSE ParseElements(s, j + 1, <<>>)
  ELSE IF s[j] = "{"
       THEN LET k == SkipWs(s, j + 1) IN
            IF k <= Len(s) /\ s[k] = "}"
            THEN [ok |-> TRUE, pos |-> k + 1, kind |-> "object",
                  text |-> <<"{", "}">>, elems |-> <<>>]
            ELSE ParseMembers(s, j + 1, <<>>)
  ELSE JsonFail

\* JSON.parse(jsonStr): one value with nothing but white space around it;
\* ok = FALSE stands for the SyntaxError it throws.
JsonParse(s) ==
  LET v == ParseValue(s, 1) IN
  IF v.ok /\ SkipWs(s, v.pos) > Len(s) THEN v ELSE JsonFail


(***************************************************************************)
(* The response bodies explored.  The server sends lines taken from        *)
(* LineBytes, each followed by a newline; it chooses a line when it starts *)
(* to send it, and may end the stream after any byte.                      *)
(***************************************************************************)
LineBytes ==
  << <<"d", "a", "t", "a", ":", " ", "[", "1", "]">>,
     <<"d", "a", "t", "a", ":", " ", "[", "\"", "C3", "A9", "\"", ",", "2", "]">>,
     <<"d", "a", "t", "a", ":", " ", "[", "1">>,
     <<"d", "a", "t", "a", ":", " ", "[", "]">>,
     <<"d", "a", "t", "a", ":", " ", "7">>,
     <<"d", "a", "t", "a", ":", "[", "4", "]">>,
     <<" ", "d", "a", "t", "a", ":", " ", "[", "5", "]">>,
     <<"e", "v", "e", "n", "t", ":", " ", "m">>,
     <<>> >>

\* the bytes of the lines ids, each with its newline
RECURSIVE LinesBytes(_)
LinesBytes(ids) ==
  IF ids = <<>> THEN <<>>
  ELSE LineBytes[Head(ids)] \o <<Newline>> \o LinesBytes(Tail(ids))

\* the sequences of lines the server may send
LineIdSeqs ==
  {q \in UNION {[1..k -> 1..Len(LineBytes)] : k \in 0..MaxLines} :
     Len(LinesBytes(q)) <= MaxBytes}

\* the bytes of each, and the sequences that go on from each
BodyBytes == [q \in LineIdSeqs |-> LinesBytes(q)]

Extensions ==
  [q \in LineIdSeqs |->
     {r \in LineIdSeqs : Len(q) <= Len(r) /\ SubSeq(r, 1, Len(q)) = q}]

(***************************************************************************)
(* Errors.  A cause is what fetch or reader.read() rejects with, or what   *)
(* the generator throws itself.                                            *)
(***************************************************************************)
StreamErrorPrefix == "Failed to generate content stream from local LLM: "

\* what fetch rejects with, and what reader.read() rejects with
FetchCauses == {[message |-> "Stream failed"], [message |-> "fetch failed"]}
ReadCauses  == {[message |-> "terminated"]}

\* getErrorMessage(error) of ../utils/errors.js
getErrorMessage(error) == error.message

\* new Error(`HTTP error! status: ${response.status} ${response.statusText}`)
HttpError(response) ==
  [message |-> "HTTP error! status: " \o response.status \o " " \o response.statusText]

NullBodyError == [message |-> "Response body is null"]

\* what fetch may resolve with
Responses ==
  { [ok |-> TRUE,  status |-> "200", statusText |-> "OK", body |-> TRUE],
    [ok |-> TRUE,  status |-> "200", statusText |-> "OK", body |-> FALSE],
    [ok |-> FALSE, status |-> "500", statusText |-> "Internal Server Error", body |-> TRUE],
    [ok |-> FALSE, status |-> "404", statusText |-> "Not Found", body |-> FALSE] }


(***************************************************************************)
(* State of one generateContentStream call and of its environment.         *)
(***************************************************************************)
VARIABLES
  lineIds,      \* the lines the server has started to send (into LineBytes)
  sent,         \* bytes of the body the transport has delivered so far
  genState,     \* where the async generator is suspended
  queue,        \* the consumer's requests that are not settled yet
  buffer,       \* let buffer (line 130)
  pending,      \* bytes of an incomplete character inside the TextDecoder
  readerLocked, \* response.body.getReader() was called (line 128)
  fetchCalls,   \* POST requests issued (line 110)
  events,       \* values the consumer has received, in order
  errors,       \* messages of the errors the generator has raised
  log,          \* console.warn / console.error calls, in order
  outcome,      \* how the call ended, "none" while it has not
  received,     \* history: the text decoded so far
  consumed,     \* history: characters the framing loop removed from buffer
  emitPos       \* history: for each event, the position in received of the
                \* newline that ended its line

\* The other operations of the class, and two stream calls side by side.
VARIABLES
  call,         \* one generateContent call, or the opening of a stream call
  stub,         \* the last countTokens / embedContent call
  pair          \* two generateContentStream calls on one generator object

\* what lies outside the one stream call above, and that call's own state
Outside == <<call, stub, pair>>

StreamVars == <<lineIds, sent, genState, queue, buffer, pending,
                readerLocked, fetchCalls, events, errors, log, outcome,
                received, consumed, emitPos>>

vars == <<lineIds, sent, genState, queue, buffer, pending,
          readerLocked, fetchCalls, events, errors, log, outcome,
          received, consumed, emitPos, call, stub, pair>>

Requests == {"next", "return", "throw"}

\* the bytes of the response body the generator has been given
body == SubSeq(BodyBytes[lineIds], 1, sent)

(***************************************************************************)
(* The part of the state the generator's own code changes, as a record.    *)
(***************************************************************************)
Frame ==
  [genState |-> genState, queue |-> queue, buffer |-> buffer,
   events |-> events, errors |-> errors, log |-> log,
   outcome |-> outcome, consumed |-> consumed,
   emitPos |-> emitPos]

Commit(f) ==
  \E g \in {f} :
    /\ genState' = g.genState
    /\ queue' = g.queue
    /\ buffer' = g.buffer
    /\ events' = g.events
    /\ errors' = g.errors
    /\ log' = g.log
    /\ outcome' = g.outcome
    /\ consumed' = g.consumed
    /\ emitPos' = g.emitPos

\* The generator completes; the requests still queued are settled as on a
\* completed generator.
Complete(f, how) ==
  [f EXCEPT !.genState = "completed", !.outcome = how, !.queue = <<>>]

\* the cause rethrown as it is
FailBare(f, cause) ==
  Complete([f EXCEPT !.errors = Append(@, getErrorMessage(cause))], "failed")

\* catch (error) at line 163: throw new Error(prefix + getErrorMessage(error))
Fail(f, cause) ==
  Complete([f EXCEPT !.errors = Append(@, StreamErrorPrefix \o getErrorMessage(cause))],
           "failed")

\* const { done, value } = await reader.read()  (line 133)
IssueRead(f) == [f EXCEPT !.genState = "awaitRead"]

\* console.warn (line 155) / console.error (line 158)
Log(f, level) == [f EXCEPT !.log = Append(@, level)]

RECURSIVE Drain(_)

\* resumption with the yield outside the try of line 147: the consumer's
\* error reaches the catch of line 163
ResumeThrowFails(f) ==
  IF Head(f.queue) = "next" THEN Drain(f)
  ELSE IF Head(f.queue) = "throw" THEN Fail(f, [message |-> "consumer error"])
  ELSE Complete(f, "returned")

\* The generator receives the request at the head of the queue while it is
\* suspended at the yield of line 153, inside the try of line 147.
Resume(f) ==
  IF Head(f.queue) = "next" THEN Drain(f)
  ELSE IF Head(f.queue) = "throw" THEN Drain(Log(f, "error"))
  ELSE Complete(f, "returned")

\* a yield that puts the value before those already yielded
YieldFront(f, value) ==
  LET g == [f EXCEPT !.events = <<value>> \o @,
                     !.emitPos = Append(@, f.consumed),
                     !.queue = Tail(@)] IN
  IF g.queue = <<>> THEN [g EXCEPT !.genState = "suspendedYield"]
  ELSE Resume(g)

\* yield json[0] (line 153): the request being served resolves with the
\* value; the generator goes on at once when another request is queued.
Yield(f, value) ==
  LET g == [f EXCEPT !.events = Append(@, value),
                     !.emitPos = Append(@, f.consumed),
                     !.queue = Tail(@)] IN
  IF g.queue = <<>> THEN [g EXCEPT !.genState = "suspendedYield"]
  ELSE Resume(g)

\* the line body without the try/catch around JSON.parse: the SyntaxError
\* reaches the catch of line 163
ProcessLineNoCatch(f, line) ==
  IF StartsWith(line, DataPrefix)
  THEN LET jsonStr == SubstringFrom(line, 5)
           json == JsonParse(jsonStr) IN
       IF ~json.ok THEN Fail(f, [message |-> "Unexpected end of JSON input"])
       ELSE IF json.kind = "array" /\ Len(json.elems) > 0
            THEN Yield(f, json.elems[1])
            ELSE Drain(Log(f, "warn"))
  ELSE Drain(f)

\* the line body yielding the last element of the array
ProcessLineLast(f, line) ==
  IF StartsWith(line, DataPrefix)
  THEN LET jsonStr == SubstringFrom(line, 5)
           json == JsonParse(jsonStr) IN
       IF ~json.ok THEN Drain(Log(f, "error"))
       ELSE IF json.kind = "array" /\ Len(json.elems) > 0
            THEN Yield(f, json.elems[Len(json.elems)])
            ELSE Drain(Log(f, "warn"))
  ELSE Drain(f)

\* lines 145-160: the body of the framing loop for one line
ProcessLine(f, line) ==
  IF StartsWith(line, DataPrefix)
  THEN LET jsonStr == SubstringFrom(line, 5)
           json == JsonParse(jsonStr) IN
       IF ~json.ok THEN Drain(Log(f, "error"))
       ELSE IF json.kind = "array" /\ Len(json.elems) > 0
            THEN Yield(f, json.elems[1])
            ELSE Drain(Log(f, "warn"))
  ELSE Drain(f)

\* the framing loop taking what is left of the buffer for a line
DrainEager(f) ==
  LET newlineIndex == IndexOf(f.buffer, Newline) IN
  IF newlineIndex = -1
  THEN IF f.buffer = <<>> THEN IssueRead(f)
       ELSE ProcessLine([f EXCEPT !.buffer = <<>>,
                                  !.consumed = @ + Len(f.buffer)],
                        f.buffer)
  ELSE LET line == Substring(f.buffer, 0, newlineIndex) IN
       ProcessLine([f EXCEPT !.buffer = SubstringFrom(f.buffer, newlineIndex + 1),
                             !.consumed = @ + newlineIndex + 1],
                   line)

\* lines 141-161, then back to line 133 when the buffer has no newline
Drain(f) ==
  LET newlineIndex == IndexOf(f.buffer, Newline) IN
  IF newlineIndex = -1 THEN IssueRead(f)
  ELSE LET line == Substring(f.buffer, 0, newlineIndex) IN
       ProcessLine([f EXCEPT !.buffer = SubstringFrom(f.buffer, newlineIndex + 1),
                             !.consumed = @ + newlineIndex + 1],
                   line)


(***************************************************************************)
(* Requests and the body built from them (lines 52-63 and 96-107, with     *)
(* JSON.stringify of lines 73 and 115).  A JavaScript value is a record    *)
(* with its type and, when it has one, its text.                           *)
(***************************************************************************)
Undefined == [type |-> "undefined"]
Number(text) == [type |-> "number", text |-> text]
Array(text)  == [type |-> "array", text |-> text]

\* the fields of request.config the payload reads, and generationConfig's
ConfigFields ==
  <<"safetySettings", "temperature", "topP", "topK", "candidateCount",
    "maxOutputTokens", "stopSequences">>

GenerationConfigFields ==
  <<"temperature", "topP", "topK", "candidateCount", "maxOutputTokens",
    "stopSequences">>

\* what a caller may put in each field; Undefined is the field left unset
FieldValues ==
  [safetySettings  |-> {Undefined, Array("[{\"category\":\"HARM_CATEGORY_HARASSMENT\"}]")},
   temperature     |-> {Undefined, Number("0"), Number("0.7"), Number("NaN")},
   topP            |-> {Undefined, Number("0.9")},
   topK            |-> {Undefined, Number("40")},
   candidateCount  |-> {Undefined, Number("1")},
   maxOutputTokens |-> {Undefined, Number("256"), Number("Infinity")},
   stopSequences   |-> {Undefined, Array("[\"END\"]")}]

Configs ==
  [safetySettings : FieldValues.safetySettings,
   temperature : FieldValues.temperature,
   topP : FieldValues.topP,
   topK : FieldValues.topK,
   candidateCount : FieldValues.candidateCount,
   maxOutputTokens : FieldValues.maxOutputTokens,
   stopSequences : FieldValues.stopSequences]

Contents == Array("[{\"role\":\"user\",\"parts\":[{\"text\":\"Hello\"}]}]")

\* GenerateContentParameters: config itself may be left out
GenerateContentParameters ==
  [contents : {Contents}, config : {Undefined} \cup Configs]

\* request.config?.field
OptionalField(config, field) ==
  IF config = Undefined THEN Undefined ELSE config[field]

\* a payload that fills in a temperature of 0 when the caller gave none
PayloadWithDefault(request) ==
  [contents |-> request.contents,
   safetySettings |-> OptionalField(request.config, "safetySettings"),
   generationConfig |->
     [f \in {GenerationConfigFields[i] : i \in 1..Len(GenerationConfigFields)}
        |-> IF f = "temperature" /\ OptionalField(request.config, f) = Undefined
            THEN Number("0")
            ELSE OptionalField(request.config, f)]]

\* const payload = {...} (lines 52-63, 96-107)
Payload(request) ==
  [contents |-> request.contents,
   safetySettings |-> OptionalField(request.config, "safetySettings"),
   generationConfig |->
     [f \in {GenerationConfigFields[i] : i \in 1..Len(GenerationConfigFields)}
        |-> OptionalField(request.config, f)]]

\* JSON.stringify of a value that is not an object: a number that is not
\* finite becomes null
NonFinite == {"NaN", "Infinity", "-Infinity"}

StringifyValue(v) ==
  IF v.type = "number" /\ v.text \in NonFinite THEN "null" ELSE v.text

\* JSON.stringify of an object with the keys in order: a property whose
\* value is undefined is left out
RECURSIVE StringifyMembers(_, _)
StringifyMembers(keys, object) ==
  IF keys = <<>> THEN <<>>
  ELSE (IF object[Head(keys)] = Undefined THEN <<>>
        ELSE << [key |-> Head(keys), value |-> StringifyValue(object[Head(keys)])] >>)
       \o StringifyMembers(Tail(keys), object)

\* JSON.stringify(payload): the members of the body, and those of its
\* generationConfig, which is always there
JsonStringify(payload) ==
  [members |-> StringifyMembers(<<"contents", "safetySettings">>, payload),
   generationConfig |-> StringifyMembers(GenerationConfigFields, payload.generationConfig)]

(***************************************************************************)
(* The generator object (lines 32-45).                                     *)
(***************************************************************************)
baseUrl == "http://localhost:8000/v1beta"
model == "gemini-1.5-flash"
timeoutMs == 60000

getEndpoint(stream) ==
  baseUrl \o "/models/" \o model \o ":" \o
  (IF stream THEN "streamGenerateContent" ELSE "generateContent")

(***************************************************************************)
(* generateContent (lines 47-89) and the stubs (lines 172-182).            *)
(***************************************************************************)
ContentErrorPrefix == "Failed to generate content from local LLM: "

\* what fetchWithTimeout rejects with, and what response.json() does
FetchWithTimeoutCauses ==
  {[message |-> "Network error"], [message |-> "Request timed out after 60000ms"]}

JsonCauses == {[message |-> "Unexpected token < in JSON at position 0"]}

JsonValues == {[type |-> "object", text |-> "{\"candidates\":[{\"index\":0}]}"]}

NotSupportedMessage(operation) ==
  operation \o " is not supported by the local LLM server."

\* no call made yet
NoCall ==
  [operation |-> "none", state |-> "idle", request |-> Undefined,
   endpoint |-> "", body |-> Undefined, timeout |-> 0,
   response |-> Undefined,
   fetches |-> 0, jsonCalls |-> 0, returned |-> <<>>, errors |-> <<>>]

NoStub == [operation |-> "none", errors |-> <<>>]

\* the cause rethrown as it is
RaiseBare(c, cause) ==
  [c EXCEPT !.state = "raised", !.errors = Append(@, getErrorMessage(cause))]

\* catch (error) at line 84: throw new Error(prefix + getErrorMessage(error))
Raise(c, cause) ==
  [c EXCEPT !.state = "raised",
            !.errors = Append(@, ContentErrorPrefix \o getErrorMessage(cause))]

(***************************************************************************)
(* Two calls on one generator object.  What a call keeps is local to it:   *)
(* response, reader, decoder and buffer are declared inside the method     *)
(* (lines 66, 110, 128-130); the fields of the object, baseUrl, model and  *)
(* timeoutMs, are written by the constructor only.                         *)
(***************************************************************************)
Calls == {1, 2}

\* the bodies the server may send to a call of a pair
PairBodies == {<<1>>, <<2>>, <<3, 1>>}

\* a call not made yet: its transport, its generator frame when it is a
\* stream call, its record when it is a generateContent call
NoPairCall ==
  [kind |-> "none", lineIds |-> <<>>, sent |-> 0, pending |-> <<>>,
   transport |-> "none",
   frame |-> [genState |-> "suspendedStart", queue |-> <<>>, buffer |-> <<>>,
              events |-> <<>>, errors |-> <<>>, log |-> <<>>,
              outcome |-> "none", consumed |-> 0, emitPos |-> <<>>],
   content |-> NoCall]

\* buffer and decoder kept in fields of the object, which the calls share
StoreShared(p, i, c) ==
  [j \in DOMAIN p |->
     IF j = i THEN c
     ELSE [p[j] EXCEPT !.frame.buffer = c.frame.buffer, !.pending = c.pending]]

\* a call writes its own locals
Store(p, i, c) == [p EXCEPT ![i] = c]

(***************************************************************************)
(* Initial state: generateContentStream(request) has returned the          *)
(* generator object; nothing of its body has run.                          *)
(***************************************************************************)
Init ==
  /\ lineIds = <<>>
  /\ sent = 0
  /\ genState = "suspendedStart"
  /\ queue = <<>>
  /\ buffer = <<>>
  /\ pending = <<>>
  /\ readerLocked = FALSE
  /\ fetchCalls = 0
  /\ events = <<>>
  /\ errors = <<>>
  /\ log = <<>>
  /\ outcome = "none"
  /\ received = <<>>
  /\ consumed = 0
  /\ emitPos = <<>>
  /\ call = NoCall
  /\ stub = NoStub
  /\ pair = [i \in Calls |-> NoPairCall]

Env == <<lineIds, sent, pending, readerLocked, received>>

\* requests that start the body again once the generator has completed
RequestRestart(req) ==
  IF genState = "suspendedStart" \/ (genState = "completed" /\ fetchCalls < 2) THEN
    /\ Commit([Frame EXCEPT !.genState = "awaitFetch", !.queue = <<req>>,
                            !.outcome = "none"])
    /\ fetchCalls' = fetchCalls + 1
    /\ UNCHANGED Env
  ELSE IF genState = "suspendedYield" THEN
    /\ Commit(Resume([Frame EXCEPT !.queue = <<req>>]))
    /\ UNCHANGED <<Env, fetchCalls>>
  ELSE IF genState = "completed" THEN
    UNCHANGED vars
  ELSE
    /\ Len(queue) < MaxQueue
    /\ Commit([Frame EXCEPT !.queue = Append(@, req)])
    /\ UNCHANGED <<Env, fetchCalls>>

\* A request of the consumer: stream.next(), stream.return(), stream.throw(e).
\*  - on the fresh generator, next starts the body, which runs up to the
\*    await of fetch (line 110); return and throw complete it unstarted;
\*  - at a yield, the request resumes the generator;
\*  - while the generator awaits fetch or read, the request is queued;
\*  - on the completed generator, the request is settled at once (next and
\*    return with {done: true}, throw with the consumer's own error) and
\*    nothing of the call changes.
Request(req) ==
  IF genState = "suspendedStart" THEN
    IF req = "next"
    THEN /\ Commit([Frame EXCEPT !.genState = "awaitFetch", !.queue = <<req>>])
         /\ fetchCalls' = fetchCalls + 1
         /\ UNCHANGED Env
    ELSE /\ Commit(Complete([Frame EXCEPT !.queue = <<req>>],
                            IF req = "throw" THEN "thrown" ELSE "returned"))
         /\ UNCHANGED <<Env, fetchCalls>>
  ELSE IF genState = "suspendedYield" THEN
    /\ Commit(Resume([Frame EXCEPT !.queue = <<req>>]))
    /\ UNCHANGED <<Env, fetchCalls>>
  ELSE IF genState = "completed" THEN
    UNCHANGED vars
  ELSE
    /\ Len(queue) < MaxQueue
    /\ Commit([Frame EXCEPT !.queue = Append(@, req)])
    /\ UNCHANGED <<Env, fetchCalls>>

ConsumerNext == Request("next") /\ UNCHANGED Outside

ConsumerReturn == Request("return") /\ UNCHANGED Outside

ConsumerThrow == Request("throw") /\ UNCHANGED Outside

\* fetch resolves (line 110); lines 118-133 run up to the first read
FetchResolve ==
  /\ genState = "awaitFetch"
  /\ \E response \in Responses :
       IF ~response.ok
       THEN /\ Commit(Fail(Frame, HttpError(response)))
            /\ UNCHANGED readerLocked
       ELSE IF ~response.body
       THEN /\ Commit(Fail(Frame, NullBodyError))
            /\ UNCHANGED readerLocked
       ELSE /\ Commit(IssueRead([Frame EXCEPT !.buffer = <<>>]))
            /\ readerLocked' = TRUE
  /\ UNCHANGED <<lineIds, sent, pending, received, fetchCalls, Outside>>

\* fetch rejects: the catch of line 163
FetchReject ==
  /\ genState = "awaitFetch"
  /\ \E cause \in FetchCauses : Commit(Fail(Frame, cause))
  /\ UNCHANGED <<Env, fetchCalls, Outside>>

\* reader.read() resolves with {done: false, value}: the next n bytes of the
\* body, wherever that cuts it (lines 137-161).  The chunk may carry lines
\* the server had not started before; it reaches into the last of them.
ReadChunk ==
  /\ genState = "awaitRead"
  /\ \E ids \in Extensions[lineIds] :
     \E whole \in {BodyBytes[ids]} :
     \E lastLen \in {IF ids # lineIds THEN Len(LineBytes[ids[Len(ids)]]) + 1
                     ELSE Len(whole) - sent} :
       /\ \E n \in (Len(whole) - lastLen - sent + 1)..(Len(whole) - sent) :
          \E d \in {Decode(pending, SubSeq(whole, sent + 1, sent + n))} :
            /\ lineIds' = ids
            /\ sent' = sent + n
            /\ pending' = d.pending
            /\ received' = received \o d.text
            /\ Commit(Drain([Frame EXCEPT !.buffer = @ \o d.text]))
  /\ UNCHANGED <<readerLocked, fetchCalls, Outside>>

\* end of stream with what is left of the buffer taken for a last line
ReadDoneFlush ==
  /\ genState = "awaitRead"
  /\ Commit(Complete(ProcessLine([Frame EXCEPT !.buffer = <<>>,
                                               !.consumed = @ + Len(buffer)],
                                 buffer),
                     "done"))
  /\ UNCHANGED <<Env, fetchCalls, Outside>>

\* end of stream taken for a failure
ReadDoneAsFailure ==
  /\ genState = "awaitRead"
  /\ Commit(Fail(Frame, [message |-> "done"]))
  /\ UNCHANGED <<Env, fetchCalls, Outside>>

\* reader.read() resolves with {done: true}: break (lines 134-136).  The
\* stream may end wherever the bytes sent so far end.
ReadDone ==
  /\ genState = "awaitRead"
  /\ Commit(Complete(Frame, "done"))
  /\ UNCHANGED <<Env, fetchCalls, Outside>>

\* reader.read() rejects: the catch of line 163
ReadReject ==
  /\ genState = "awaitRead"
  /\ \E cause \in ReadCauses : Commit(Fail(Frame, cause))
  /\ UNCHANGED <<Env, fetchCalls, Outside>>

Next ==
  \/ ConsumerNext
  \/ ConsumerReturn
  \/ ConsumerThrow
  \/ FetchResolve
  \/ FetchReject
  \/ ReadChunk
  \/ ReadDone
  \/ ReadReject

Spec == Init /\ [][Next]_vars

\* The call with a consumer that keeps pulling (for await: next() only, and
\* the generator is never left suspended for ever), a fetch that settles,
\* and a transport that in the end reports the end of the stream or fails.
NextPulling ==
  \/ ConsumerNext
  \/ FetchResolve
  \/ FetchReject
  \/ ReadChunk
  \/ ReadDone
  \/ ReadReject

SpecPulling ==
  /\ Init
  /\ [][NextPulling]_vars
  /\ []<>(genState \notin {"suspendedStart", "suspendedYield"})
  /\ WF_vars(FetchResolve \/ FetchReject)
  /\ SF_vars(ReadDone \/ ReadReject)

TypeOK ==
  /\ genState \in {"suspendedStart", "awaitFetch", "awaitRead", "suspendedYield", "completed"}
  /\ outcome \in {"none", "done", "failed", "returned", "thrown"}
  /\ lineIds \in LineIdSeqs
  /\ sent \in 0..Len(BodyBytes[lineIds])
  /\ Len(queue) <= MaxQueue


(***************************************************************************)
(* One generateContent call, the opening of a stream call, and the stubs.  *)
(***************************************************************************)
\* generateContent(request) up to the await of fetchWithTimeout (lines 51-76)
GenerateContent ==
  /\ call.state = "idle"
  /\ \E request \in GenerateContentParameters :
       call' = [call EXCEPT !.operation = "generateContent",
                            !.state = "awaitFetch",
                            !.request = request,
                            !.endpoint = getEndpoint(FALSE),
                            !.body = JsonStringify(Payload(request)),
                            !.timeout = timeoutMs,
                            !.fetches = @ + 1]
  /\ UNCHANGED <<StreamVars, stub, pair>>

\* the first next() of generateContentStream(request) up to the await of
\* fetch (lines 95-117); what follows is the stream call modelled above
GenerateContentStreamOpen ==
  /\ call.state = "idle"
  /\ \E request \in GenerateContentParameters :
       call' = [call EXCEPT !.operation = "generateContentStream",
                            !.state = "streaming",
                            !.request = request,
                            !.endpoint = getEndpoint(TRUE),
                            !.body = JsonStringify(Payload(request)),
                            !.fetches = @ + 1]
  /\ UNCHANGED <<StreamVars, stub, pair>>

\* fetchWithTimeout resolves and the body is read whatever the status
FetchWithTimeoutResolveNoStatusCheck ==
  /\ call.state = "awaitFetch"
  /\ \E response \in Responses :
       call' = [call EXCEPT !.response = response,
                            !.state = "awaitJson", !.jsonCalls = @ + 1]
  /\ UNCHANGED <<StreamVars, stub, pair>>

\* fetchWithTimeout resolves: lines 78-83 up to the await of response.json()
FetchWithTimeoutResolve ==
  /\ call.state = "awaitFetch"
  /\ \E response \in Responses :
       call' = IF ~response.ok
               THEN Raise([call EXCEPT !.response = response], HttpError(response))
               ELSE [call EXCEPT !.response = response,
                                 !.state = "awaitJson", !.jsonCalls = @ + 1]
  /\ UNCHANGED <<StreamVars, stub, pair>>

\* fetchWithTimeout rejects (the request fails or times out): line 84
FetchWithTimeoutReject ==
  /\ call.state = "awaitFetch"
  /\ \E cause \in FetchWithTimeoutCauses : call' = Raise(call, cause)
  /\ UNCHANGED <<StreamVars, stub, pair>>

\* response.json() resolves: return (line 83)
JsonResolve ==
  /\ call.state = "awaitJson"
  /\ \E value \in JsonValues :
       call' = [call EXCEPT !.state = "returned", !.returned = Append(@, value)]
  /\ UNCHANGED <<StreamVars, stub, pair>>

\* response.json() rejects: line 84
JsonReject ==
  /\ call.state = "awaitJson"
  /\ \E cause \in JsonCauses : call' = Raise(call, cause)
  /\ UNCHANGED <<StreamVars, stub, pair>>

\* a countTokens that asks the server first
CountTokensFetch ==
  /\ stub' = [operation |-> "countTokens",
              errors |-> <<NotSupportedMessage("countTokens")>>]
  /\ call' = [call EXCEPT !.fetches = 1]
  /\ UNCHANGED <<StreamVars, pair>>

\* countTokens(_request) (lines 172-176), whatever else is going on
CountTokens ==
  /\ stub' = [operation |-> "countTokens",
              errors |-> <<NotSupportedMessage("countTokens")>>]
  /\ UNCHANGED <<StreamVars, call, pair>>

\* embedContent(_request) (lines 178-182)
EmbedContent ==
  /\ stub' = [operation |-> "embedContent",
              errors |-> <<NotSupportedMessage("embedContent")>>]
  /\ UNCHANGED <<StreamVars, call, pair>>

CallNext ==
  \/ GenerateContent
  \/ GenerateContentStreamOpen
  \/ FetchWithTimeoutResolve
  \/ FetchWithTimeoutReject
  \/ JsonResolve
  \/ JsonReject
  \/ CountTokens
  \/ EmbedContent

SpecCall == Init /\ [][CallNext]_vars

(***************************************************************************)
(* Two calls side by side: two stream calls, or a stream call and a        *)
(* generateContent call, their steps interleaved in any order.  The        *)
(* consumer of a stream call pulls when the call has yielded.              *)
(***************************************************************************)
\* generateContentStream(request) and the first next(), up to the await of
\* fetch (lines 95-117)
PairStreamCall ==
  /\ \E i \in Calls :
       /\ pair[i].kind = "none"
       /\ pair' = Store(pair, i,
                    [pair[i] EXCEPT !.kind = "stream",
                                    !.frame.genState = "awaitFetch",
                                    !.frame.queue = <<"next">>])
  /\ UNCHANGED <<StreamVars, call, stub>>

\* generateContent(request) up to the await of fetchWithTimeout (lines 51-76)
PairContentCall ==
  /\ \E i \in Calls :
       /\ pair[i].kind = "none"
       /\ \E j \in Calls : pair[j].kind = "stream"
       /\ pair' = Store(pair, i,
                    [pair[i] EXCEPT !.kind = "content",
                                    !.content.operation = "generateContent",
                                    !.content.state = "awaitFetch",
                                    !.content.endpoint = getEndpoint(FALSE),
                                    !.content.timeout = timeoutMs,
                                    !.content.fetches = @ + 1])
  /\ UNCHANGED <<StreamVars, call, stub>>

\* next() on a stream call suspended at the yield
PairPull ==
  /\ \E i \in Calls :
       /\ pair[i].kind = "stream"
       /\ pair[i].frame.genState = "suspendedYield"
       /\ pair' = Store(pair, i,
                    [pair[i] EXCEPT !.frame = Resume([@ EXCEPT !.queue = <<"next">>])])
  /\ UNCHANGED <<StreamVars, call, stub>>

\* fetch of a stream call resolves (lines 110-133)
PairFetchResolve ==
  /\ \E i \in Calls :
       /\ pair[i].kind = "stream"
       /\ pair[i].frame.genState = "awaitFetch"
       /\ \E response \in Responses : \E ids \in PairBodies :
            pair' = Store(pair, i,
              IF ~response.ok
              THEN [pair[i] EXCEPT !.frame = Fail(@, HttpError(response)),
                                   !.transport = "failed"]
              ELSE IF ~response.body
              THEN [pair[i] EXCEPT !.frame = Fail(@, NullBodyError),
                                   !.transport = "failed"]
              ELSE [pair[i] EXCEPT !.frame = IssueRead([@ EXCEPT !.buffer = <<>>]),
                                   !.lineIds = ids,
                                   !.transport = "open"])
  /\ UNCHANGED <<StreamVars, call, stub>>

\* fetch of a stream call rejects (line 163)
PairFetchReject ==
  /\ \E i \in Calls :
       /\ pair[i].kind = "stream"
       /\ pair[i].frame.genState = "awaitFetch"
       /\ \E cause \in FetchCauses :
            pair' = Store(pair, i, [pair[i] EXCEPT !.frame = Fail(@, cause),
                                                   !.transport = "failed"])
  /\ UNCHANGED <<StreamVars, call, stub>>

\* reader.read() of a stream call resolves with the next n bytes of the
\* call's own body (lines 133-161)
PairReadChunk ==
  /\ \E i \in Calls :
       /\ pair[i].kind = "stream"
       /\ pair[i].frame.genState = "awaitRead"
       /\ \E whole \in {LinesBytes(pair[i].lineIds)} :
          \E n \in 1..(Len(whole) - pair[i].sent) :
          \E d \in {Decode(pair[i].pending,
                            SubSeq(whole, pair[i].sent + 1, pair[i].sent + n))} :
            pair' = Store(pair, i,
              [pair[i] EXCEPT !.sent = @ + n,
                              !.pending = d.pending,
                              !.frame = Drain([@ EXCEPT !.buffer = @ \o d.text])])
  /\ UNCHANGED <<StreamVars, call, stub>>

\* reader.read() of a stream call resolves with {done: true} (lines 134-136)
PairReadDone ==
  /\ \E i \in Calls :
       /\ pair[i].kind = "stream"
       /\ pair[i].frame.genState = "awaitRead"
       /\ pair' = Store(pair, i, [pair[i] EXCEPT !.frame = Complete(@, "done"),
                                                 !.transport = "ended"])
  /\ UNCHANGED <<StreamVars, call, stub>>

\* reader.read() of a stream call rejects (line 163)
PairReadReject ==
  /\ \E i \in Calls :
       /\ pair[i].kind = "stream"
       /\ pair[i].frame.genState = "awaitRead"
       /\ \E cause \in ReadCauses :
            pair' = Store(pair, i, [pair[i] EXCEPT !.frame = Fail(@, cause),
                                                   !.transport = "failed"])
  /\ UNCHANGED <<StreamVars, call, stub>>

\* fetchWithTimeout of a generateContent call resolves (lines 78-83)
PairContentResolve ==
  /\ \E i \in Calls :
       /\ pair[i].kind = "content"
       /\ pair[i].content.state = "awaitFetch"
       /\ \E response \in Responses :
            pair' = Store(pair, i,
              IF ~response.ok
              THEN [pair[i] EXCEPT !.content = Raise([@ EXCEPT !.response = response],
                                                     HttpError(response)),
                                   !.transport = "failed"]
              ELSE [pair[i] EXCEPT !.content.response = response,
                                   !.content.state = "awaitJson",
                                   !.content.jsonCalls = @ + 1,
                                   !.transport = "open"])
  /\ UNCHANGED <<StreamVars, call, stub>>

\* fetchWithTimeout of a generateContent call rejects (line 84)
PairContentReject ==
  /\ \E i \in Calls :
       /\ pair[i].kind = "content"
       /\ pair[i].content.state = "awaitFetch"
       /\ \E cause \in FetchWithTimeoutCauses :
            pair' = Store(pair, i, [pair[i] EXCEPT !.content = Raise(@, cause),
                                                   !.transport = "failed"])
  /\ UNCHANGED <<StreamVars, call, stub>>

\* response.json() of a generateContent call resolves (line 83)
PairJsonResolve ==
  /\ \E i \in Calls :
       /\ pair[i].kind = "content"
       /\ pair[i].content.state = "awaitJson"
       /\ \E value \in JsonValues :
            pair' = Store(pair, i,
              [pair[i] EXCEPT !.content.state = "returned",
                              !.content.returned = Append(@, value),
                              !.transport = "ended"])
  /\ UNCHANGED <<StreamVars, call, stub>>

\* response.json() of a generateContent call rejects (line 84)
PairJsonReject ==
  /\ \E i \in Calls :
       /\ pair[i].kind = "content"
       /\ pair[i].content.state = "awaitJson"
       /\ \E cause \in JsonCauses :
            pair' = Store(pair, i, [pair[i] EXCEPT !.content = Raise(@, cause),
                                                   !.transport = "failed"])
  /\ UNCHANGED <<StreamVars, call, stub>>

PairNext ==
  \/ PairStreamCall
  \/ PairContentCall
  \/ PairPull
  \/ PairFetchResolve
  \/ PairFetchReject
  \/ PairReadChunk
  \/ PairReadDone
  \/ PairReadReject
  \/ PairContentResolve
  \/ PairContentReject
  \/ PairJsonResolve
  \/ PairJsonReject

SpecPair == Init /\ [][PairNext]_vars

(***************************************************************************)
(* What the claims speak of.                                               *)
(***************************************************************************)
\* For each line of LineBytes, the first element of the array its payload
\* is, or <<>> when the line is no data line or its payload no such array.
FirstElementOf ==
  << <<"1">>, <<"\"", "U+E9", "\"">>, <<>>, <<>>, <<>>, <<>>, <<>>, <<>>, <<>> >>

EventLines   == {1, 2}      \* 'data: ' and an array with an element
BadPayloads  == {3, 4, 5}   \* 'data: ' and invalid JSON, [] or a non-array
NotDataLines == {6, 7, 8, 9} \* no 'data: ' at the start

IsPrefix(s, t) == Len(s) <= Len(t) /\ SubSeq(t, 1, Len(s)) = s

\* positions of the newlines in the text received so far, in order
NewlinePositions == {p \in 1..Len(received) : received[p] = Newline}

NewlineCount(text) == Cardinality({p \in 1..Len(text) : text[p] = Newline})

\* the position in received of the newline that ends line j
LineEnd(j) ==
  CHOOSE p \in NewlinePositions :
    Cardinality({q \in NewlinePositions : q <= p}) = j

\* the lines received with their newline, and those the framing loop took
CompleteLines  == 1..Cardinality(NewlinePositions)
ProcessedLines == {j \in CompleteLines : LineEnd(j) <= consumed}

\* line j has yielded an event
Yielded(j) == \E k \in 1..Len(emitPos) : emitPos[k] = LineEnd(j)

\* the events of the lines ids, in order, one per event line
RECURSIVE EventsOf(_)
EventsOf(ids) ==
  IF ids = <<>> THEN <<>>
  ELSE (IF Head(ids) \in EventLines THEN <<FirstElementOf[Head(ids)]>> ELSE <<>>)
       \o EventsOf(Tail(ids))

(***************************************************************************)
(* C1: chunk-boundary independence.                                        *)
(***************************************************************************)
\* The call as it stands after the bytes arrive as one chunk and the
\* consumer pulls every event of it.
OneChunkFrame(bytes) ==
  [genState |-> "awaitRead",
   queue    |-> [i \in 1..(Len(bytes) + 1) |-> "next"],
   buffer   |-> Decode(<<>>, bytes).text,
   events   |-> <<>>,
   errors   |-> <<>>,
   log      |-> <<>>,
   outcome  |-> "none",
   consumed |-> 0,
   emitPos  |-> <<>>]

OneChunk(bytes) == Drain(OneChunkFrame(bytes))

\* C1: whatever the chunks the bytes came in (a chunk may end inside a
\* line, inside the 'data: ' prefix or inside a multi-byte character), the
\* events yielded are those the same bytes yield when they arrive as one
\* chunk: always a prefix of them, and all of them whenever the call waits
\* for the next chunk or has seen the end of the stream.
C1_ChunkIndependence ==
  LET one == OneChunk(body).events IN
  /\ IsPrefix(events, one)
  /\ (genState = "awaitRead" \/ outcome = "done") => events = one

\* C1 witness: an event has been yielded, and the last chunk ended inside
\* a later data line, between the two bytes of a character.
C1_Witness ==
  /\ pending = <<LeadByte>>
  /\ events # <<>>
  /\ StartsWith(buffer, DataPrefix)
  /\ genState = "awaitRead"

(***************************************************************************)
(* C2: events come in the order of their lines.                            *)
(***************************************************************************)
\* the number of the line whose newline is at position p of received
LineAt(p) == Cardinality({q \in NewlinePositions : q <= p})

\* C2: the k-th event yielded is the event of the line whose newline
\* emitPos[k] is, and of two events the one yielded first is the one whose
\* line ends first in the text received, whatever the chunks and the
\* consumer's requests.
C2_EventOrder ==
  /\ Len(emitPos) = Len(events)
  /\ \A k \in 1..Len(events) :
       /\ emitPos[k] \in NewlinePositions
       /\ events[k] = FirstElementOf[lineIds[LineAt(emitPos[k])]]
  /\ \A i, j \in 1..Len(events) : i < j <=> emitPos[i] < emitPos[j]

\* C2 witness: two different events have been yielded.
C2_Witness ==
  /\ Len(events) = 2
  /\ events[1] # events[2]

(***************************************************************************)
(* C3: a data line with a bad payload is skipped.                          *)
(***************************************************************************)
\* the lines received with their newline
CompleteIds == SubSeq(lineIds, 1, Cardinality(NewlinePositions))

\* Wherever the call stands: no line with a bad payload has yielded an
\* event, and when the call waits for the next chunk every complete line
\* has been taken, the event lines among them (those after a bad line too)
\* have yielded their events, and no error has been raised.
C3_SkippedState ==
  /\ \A j \in ProcessedLines : lineIds[j] \in BadPayloads => ~Yielded(j)
  /\ genState = "awaitRead" =>
       /\ ProcessedLines = CompleteLines
       /\ events = EventsOf(CompleteIds)
       /\ errors = <<>>

\* A step that takes lines from the buffer raises no error and leaves the
\* call reading or suspended at a yield, unless the consumer asked it to
\* return.
C3_SkippedStep ==
  consumed' > consumed =>
    /\ errors' = errors
    /\ outcome' # "failed"
    /\ genState' \in {"awaitRead", "suspendedYield"} \/ outcome' = "returned"

\* C3: a data line whose payload is invalid JSON, an empty array or no
\* array yields no event and does not end the stream: no error is raised,
\* the call goes on reading, and the event lines after it yield their
\* events.
C3_BadPayloadSkipped == []C3_SkippedState /\ [][C3_SkippedStep]_vars

\* C3 witness: a line of invalid JSON has been taken and the line after it
\* has yielded its event.
C3_Witness ==
  \E j \in ProcessedLines :
    /\ lineIds[j] = 3
    /\ j + 1 \in ProcessedLines
    /\ Yielded(j + 1)

(***************************************************************************)
(* C4: a failure of the call raises one wrapped error.                     *)
(***************************************************************************)
\* the messages of what may fail before the first read, and at a read
OpenCauseMessages ==
  {"Stream failed", "fetch failed", "Response body is null",
   "HTTP error! status: 500 Internal Server Error",
   "HTTP error! status: 404 Not Found"}

ReadCauseMessages == {"terminated"}

Wrapped(messages) ==
  {"Failed to generate content stream from local LLM: " \o m : m \in messages}

\* The errors raised are one at most, and one exactly when the call has
\* failed: the prefix followed by the message of the cause.  A call that
\* failed before its first read has yielded no event and read no chunk.
C4_FailedState ==
  /\ Len(errors) <= 1
  /\ errors # <<>> <=> outcome = "failed"
  /\ outcome = "failed" =>
       /\ genState = "completed"
       /\ readerLocked => errors[1] \in Wrapped(ReadCauseMessages)
       /\ ~readerLocked =>
            /\ errors[1] \in Wrapped(OpenCauseMessages)
            /\ events = <<>>
            /\ sent = 0
            /\ received = <<>>

\* The step that fails yields no event, and after the failure no event is
\* yielded, no error raised and no chunk read.
C4_FailedStep ==
  /\ outcome' = "failed" => events' = events
  /\ outcome = "failed" =>
       /\ outcome' = "failed"
       /\ errors' = errors
       /\ sent' = sent

\* C4: a rejected request, a non-success status, an absent body or a failed
\* read ends the sequence with exactly one error, the prefix 'Failed to
\* generate content stream from local LLM: ' followed by the cause's
\* message; no event follows it, the events before it stand, and a failure
\* before the first read comes with no event and no chunk read.
C4_CallFailureWrapped == []C4_FailedState /\ [][C4_FailedStep]_vars

\* C4 witness: a read has failed after an event was yielded.
C4_Witness ==
  /\ outcome = "failed"
  /\ readerLocked
  /\ events # <<>>
  /\ errors = <<"Failed to generate content stream from local LLM: terminated">>

(***************************************************************************)
(* C5: no event before the newline of its line.                            *)
(***************************************************************************)
\* The events yielded are no more than the newlines received, and each is
\* the event of a line whose newline has been received.
C5_NewlineFirstState ==
  /\ Len(events) <= NewlineCount(received)
  /\ \A k \in 1..Len(emitPos) : emitPos[k] \in NewlinePositions

\* A chunk that brings no newline brings no event.
C5_NewlineFirstStep ==
  (sent' > sent /\ NewlineCount(received') = NewlineCount(received))
    => events' = events

\* C5: no event is yielded for a line before the newline that ends it has
\* been received: the events yielded so far are at most as many as the
\* newlines received so far, and a chunk with no newline in it yields no
\* event.
C5_NoEventBeforeNewline == []C5_NewlineFirstState /\ [][C5_NewlineFirstStep]_vars

\* C5 witness: the whole of a data line but its newline has been received,
\* the call waits for the next chunk and has yielded nothing.
C5_Witness ==
  /\ genState = "awaitRead"
  /\ buffer = <<"d", "a", "t", "a", ":", " ", "[", "1", "]">>
  /\ events = <<>>

(***************************************************************************)
(* C6: the end of the stream discards what is left in the buffer.          *)
(***************************************************************************)
\* the text received after the last newline
AfterLastNewline ==
  LET last == IF NewlinePositions = {} THEN 0
              ELSE CHOOSE p \in NewlinePositions :
                     \A q \in NewlinePositions : q <= p IN
  SubSeq(received, last + 1, Len(received))

\* C6: when the transport reports the end of the stream the call is done
\* with the text after the last newline still in the buffer, unprocessed:
\* the events are those of the lines that had their newline, the trailing
\* text has yielded no event, even when it is a well-formed data line, and
\* no error is raised.
C6_TailDiscarded ==
  outcome = "done" =>
    /\ genState = "completed"
    /\ buffer = AfterLastNewline
    /\ consumed = Len(received) - Len(buffer)
    /\ events = EventsOf(CompleteIds)
    /\ Len(events) = Len(emitPos)
    /\ errors = <<>>

\* C6 witness: the stream has ended after a line that yielded its event
\* and a second well-formed data line that lacks its newline.
C6_Witness ==
  /\ outcome = "done"
  /\ buffer = <<"d", "a", "t", "a", ":", " ", "[", "1", "]">>
  /\ events = <<FirstElementOf[1]>>

(***************************************************************************)
(* C7: one event a line, the first element of its array.                   *)
(***************************************************************************)
\* the events line j has yielded, by their place in events
YieldsOf(j) == {k \in 1..Len(emitPos) : emitPos[k] = LineEnd(j)}

\* C7: every data line taken from the buffer whose payload is an array with
\* an element has yielded exactly one event, the first element of the
\* array; no line has yielded more than one event, and no element after
\* the first is ever an event.  When the call waits for the next chunk
\* every line received with its newline has been taken.
C7_FirstElementOnce ==
  /\ Len(emitPos) = Len(events)
  /\ \A j \in ProcessedLines :
       lineIds[j] \in EventLines =>
         /\ Cardinality(YieldsOf(j)) = 1
         /\ \A k \in YieldsOf(j) : events[k] = FirstElementOf[lineIds[j]]
  /\ \A j \in CompleteLines : Cardinality(YieldsOf(j)) <= 1
  /\ \A k \in 1..Len(events) : events[k] # <<"2">>
  /\ genState = "awaitRead" => ProcessedLines = CompleteLines

\* C7 witness: the line whose array has two elements has been taken and
\* has yielded the first of them.
C7_Witness ==
  \E j \in ProcessedLines :
    /\ lineIds[j] = 2
    /\ \E k \in YieldsOf(j) : events[k] = <<"\"", "U+E9", "\"">>

(***************************************************************************)
(* C8: a line without the prefix is ignored.                               *)
(***************************************************************************)
IsDataLine(id) == id \notin NotDataLines

\* C8: a complete line that does not start with 'data: ' (a blank line, an
\* 'event:' line, 'data:' without the space, the prefix after a space)
\* yields no event and raises no error; it is removed from the buffer, and
\* the events yielded are those of the other lines, as if it had not been
\* there.
C8_NonDataIgnored ==
  /\ \A j \in ProcessedLines : lineIds[j] \in NotDataLines => YieldsOf(j) = {}
  /\ consumed = Len(received) - Len(buffer)
  /\ IsPrefix(events, EventsOf(SelectSeq(CompleteIds, IsDataLine)))
  /\ genState = "awaitRead" =>
       /\ buffer = AfterLastNewline
       /\ events = EventsOf(SelectSeq(CompleteIds, IsDataLine))
       /\ errors = <<>>

\* C8 witness: 'data:[4]', without the space, has been taken from the
\* buffer and the data line after it has yielded its event.
C8_Witness ==
  \E j \in ProcessedLines :
    /\ lineIds[j] = 6
    /\ j + 1 \in ProcessedLines
    /\ YieldsOf(j + 1) # {}
    /\ genState = "awaitRead"

(***************************************************************************)
(* C9: reads follow the consumer's pulls.                                  *)
(***************************************************************************)
\* this step issues the POST request, or a reader.read()
FetchIssued == genState' = "awaitFetch" /\ genState # "awaitFetch"
ReadIssued  == genState' = "awaitRead" /\ (genState # "awaitRead" \/ sent' > sent)

\* a next() of the consumer is waiting for its result after the step
NextOutstanding == \E i \in 1..Len(queue') : queue'[i] = "next"

\* C9: the POST request and every read of a chunk are issued only while a
\* next() of the consumer is outstanding.
C9_DemandDriven == [][(FetchIssued \/ ReadIssued) => NextOutstanding]_vars

(***************************************************************************)
(* C10: an abandoned call lets go of the transport.                        *)
(***************************************************************************)
\* C10: once the consumer has ended the sequence with return(), the call
\* no longer holds the reader of the response body.
C10_AbandonReleases == outcome = "returned" => ~readerLocked

(***************************************************************************)
(* C11: a non-success status fails generateContent before the body is read.*)
(***************************************************************************)
\* C11: when fetchWithTimeout has resolved with a response that is not ok,
\* generateContent has failed with one error whose message holds the status
\* code and the status text, it has returned nothing, and response.json()
\* has not been called.
C11_StatusErrorNoParse ==
  (/\ call.operation = "generateContent"
   /\ call.response # Undefined
   /\ ~call.response.ok) =>
    /\ call.state = "raised"
    /\ call.jsonCalls = 0
    /\ call.returned = <<>>
    /\ Len(call.errors) = 1
    /\ call.errors[1] =
         "Failed to generate content from local LLM: HTTP error! status: "
           \o call.response.status \o " " \o call.response.statusText

\* C11 witness: the server answered 500 Internal Server Error.
C11_Witness ==
  /\ call.operation = "generateContent"
  /\ call.response # Undefined
  /\ call.response.status = "500"
  /\ call.state = "raised"

(***************************************************************************)
(* C12: generateContent returns the parsed body or raises one wrapped      *)
(* error.                                                                  *)
(***************************************************************************)
ContentCauseMessages ==
  {"Network error", "Request timed out after 60000ms",
   "HTTP error! status: 500 Internal Server Error",
   "HTTP error! status: 404 Not Found",
   "Unexpected token < in JSON at position 0"}

\* C12: a generateContent call that has ended has either returned the
\* parsed body of an ok response and raised nothing, or raised exactly one
\* error, 'Failed to generate content from local LLM: ' followed by the
\* cause's message, and returned nothing; a call that has not ended is
\* waiting for fetchWithTimeout or for response.json().
C12_ReturnOrWrappedError ==
  call.operation = "generateContent" =>
    /\ call.state \in {"awaitFetch", "awaitJson", "returned", "raised"}
    /\ call.fetches = 1
    /\ call.state \in {"awaitFetch", "awaitJson"} =>
         call.returned = <<>> /\ call.errors = <<>>
    /\ call.state = "returned" =>
         /\ call.errors = <<>>
         /\ Len(call.returned) = 1
         /\ call.returned[1] \in JsonValues
         /\ call.response.ok
         /\ call.jsonCalls = 1
    /\ call.state = "raised" =>
         /\ call.returned = <<>>
         /\ Len(call.errors) = 1
         /\ call.errors[1] \in
              {"Failed to generate content from local LLM: " \o m :
                 m \in ContentCauseMessages}

\* C12 witness: the body of an ok response was not JSON.
C12_Witness ==
  /\ call.operation = "generateContent"
  /\ call.state = "raised"
  /\ call.jsonCalls = 1
  /\ call.errors = <<"Failed to generate content from local LLM: Unexpected token < in JSON at position 0">>

(***************************************************************************)
(* C13: the stubs fail without a network call.                             *)
(***************************************************************************)
\* after a stub was called it has raised its one error
C13_StubState ==
  /\ stub.operation = "countTokens" =>
       stub.errors = <<"countTokens is not supported by the local LLM server.">>
  /\ stub.operation = "embedContent" =>
       stub.errors = <<"embedContent is not supported by the local LLM server.">>

\* a step that is a stub call issues no request and touches no other call
C13_StubStep ==
  stub' # stub =>
    /\ call'.fetches = call.fetches
    /\ fetchCalls' = fetchCalls
    /\ call' = call

\* C13: countTokens and embedContent fail, in whatever state the other
\* operations are, with an error that names the operation as not
\* supported, and they issue no network call.
C13_StubsNotSupported == []C13_StubState /\ [][C13_StubStep]_vars

\* C13 witness: embedContent was called while a generateContent call was
\* waiting for its response.
C13_Witness ==
  /\ stub.operation = "embedContent"
  /\ call.state = "awaitFetch"
  /\ call.fetches = 1

(***************************************************************************)
(* C14: fields left unset are absent from the body.                        *)
(***************************************************************************)
\* where in the body field f goes, and what is sent under its name
MembersFor(f) ==
  IF f = "safetySettings" THEN call.body.members ELSE call.body.generationConfig

SentUnder(f) ==
  {i \in 1..Len(MembersFor(f)) : MembersFor(f)[i].key = f}

Absent(f) ==
  /\ \A i \in 1..Len(call.body.members) : call.body.members[i].key # f
  /\ \A i \in 1..Len(call.body.generationConfig) :
       call.body.generationConfig[i].key # f

SentAs(f, text) ==
  /\ Cardinality(SentUnder(f)) = 1
  /\ \A i \in SentUnder(f) : MembersFor(f)[i].value = text

CallerValue(f) == OptionalField(call.request.config, f)

IsNonFiniteNumber(v) ==
  v.type = "number" /\ v.text \in {"NaN", "Infinity", "-Infinity"}

\* C14 as written: in the body of a generateContent or generateContentStream
\* request every field the caller left unset is absent, and every field
\* the caller set is sent with the caller's value.
C14_SetFieldsSentAsGiven ==
  call.operation \in {"generateContent", "generateContentStream"} =>
    \A i \in 1..Len(ConfigFields) :
      IF CallerValue(ConfigFields[i]) = Undefined
      THEN Absent(ConfigFields[i])
      ELSE SentAs(ConfigFields[i], CallerValue(ConfigFields[i]).text)

\* C14, amended: in the body of a generateContent or generateContentStream
\* request every field the caller left unset is absent, no default in its
\* place, and every field the caller set is sent once, with the caller's
\* value, except that a number that is NaN or infinite is sent as null;
\* the rule is the same for both operations.
C14_UnsetFieldsAbsent ==
  call.operation \in {"generateContent", "generateContentStream"} =>
    \A i \in 1..Len(ConfigFields) :
      IF CallerValue(ConfigFields[i]) = Undefined
      THEN Absent(ConfigFields[i])
      ELSE IF IsNonFiniteNumber(CallerValue(ConfigFields[i]))
      THEN SentAs(ConfigFields[i], "null")
      ELSE SentAs(ConfigFields[i], CallerValue(ConfigFields[i]).text)

\* C14 witness: a stream call whose request sets topK, leaves topP unset
\* and has NaN for its temperature.
C14_Witness ==
  /\ call.operation = "generateContentStream"
  /\ call.request.config # Undefined
  /\ call.request.config.topK = Number("40")
  /\ call.request.config.topP = Undefined
  /\ call.request.config.temperature = Number("NaN")

(***************************************************************************)
(* C15: the buffer is the unresolved rest of the text received.            *)
(***************************************************************************)
\* C15: every character received is either in a line already taken from
\* the buffer or still in the buffer, in the order received: the buffer is
\* the text received from position consumed + 1 on, and what was taken ends
\* with a newline.  Whenever the call waits for a chunk the buffer has no
\* newline in it and is the text received after the last newline, the
\* whole text when no newline has come.
C15_BufferIsUnresolvedRest ==
  /\ consumed \in 0..Len(received)
  /\ buffer = SubSeq(received, consumed + 1, Len(received))
  /\ consumed > 0 => received[consumed] = Newline
  /\ genState = "awaitRead" =>
       /\ \A i \in 1..Len(buffer) : buffer[i] # Newline
       /\ buffer = AfterLastNewline
       /\ (NewlinePositions = {} => buffer = received)

\* C15 witness: the call waits for a chunk with a line taken and a part of
\* the next line in the buffer.
C15_Witness ==
  /\ genState = "awaitRead"
  /\ consumed > 0
  /\ buffer # <<>>
  /\ Len(received) = consumed + Len(buffer)

(***************************************************************************)
(* C16: the call terminates.                                               *)
(***************************************************************************)
\* one more pass of the framing loop leaves a strictly shorter buffer
C16_PassShortens ==
  LET newlineIndex == IndexOf(buffer, Newline) IN
  newlineIndex # -1 =>
    Len(SubstringFrom(buffer, newlineIndex + 1)) < Len(buffer)

\* A step takes no more from the buffer than it holds, every event yielded
\* comes with at least one line taken, and the end of the stream makes the
\* call done, with no error.
C16_FramingStep ==
  /\ consumed' >= consumed
  /\ Len(buffer') = Len(received') - consumed'
  /\ Len(events') > Len(events) => consumed' > consumed
  /\ ReadDone => outcome' = "done" /\ errors' = errors

\* C16: each pass of the framing loop shortens the buffer, so the loop
\* ends; with a consumer that keeps pulling and a transport that in the end
\* reports the end of the stream or fails, the call ends done or failed;
\* and the end of the stream ends it done, not failed.
C16_Terminates ==
  /\ []C16_PassShortens
  /\ [][C16_FramingStep]_vars
  /\ <>(outcome \in {"done", "failed"})

\* C16 witness: the call is done after two events, with the consumer
\* pulling all along.
C16_Witness ==
  /\ outcome = "done"
  /\ Len(events) = 2
  /\ genState = "completed"

(***************************************************************************)
(* C17: done and failed are final.                                         *)
(***************************************************************************)
Ended == outcome \in {"done", "failed"}

\* A call that has ended is a completed generator with no request waiting;
\* done comes with no error and failed with one; the call has issued one
\* POST, and none before its first next().
C17_EndedState ==
  /\ fetchCalls \in {0, 1}
  /\ fetchCalls = 0 =>
       /\ genState = "suspendedStart" \/ outcome \in {"returned", "thrown"}
       /\ events = <<>> /\ errors = <<>> /\ sent = 0 /\ ~readerLocked
  /\ Ended =>
       /\ genState = "completed"
       /\ queue = <<>>
       /\ fetchCalls = 1
       /\ outcome = "done" <=> errors = <<>>

\* Once the call has ended nothing of it changes: no event, no error, no
\* read, no request to the server, and the outcome stays what it is.
C17_EndedStep ==
  Ended =>
    /\ outcome' = outcome
    /\ genState' = genState
    /\ events' = events
    /\ errors' = errors
    /\ sent' = sent
    /\ received' = received
    /\ fetchCalls' = fetchCalls
    /\ queue' = queue

\* C17: once the sequence has ended, done or failed, every further request
\* on it finds a completed generator: it yields no event, raises no error,
\* reads no chunk and sends no request; done and failed exclude each other
\* and neither turns into the other; one call issues one POST.
C17_EndIsAbsorbing == []C17_EndedState /\ [][C17_EndedStep]_vars

\* C17 witness: the call has failed at a read after yielding an event and
\* has issued its one POST.
C17_Witness ==
  /\ outcome = "failed"
  /\ genState = "completed"
  /\ Len(events) = 1
  /\ Len(errors) = 1
  /\ fetchCalls = 1

(***************************************************************************)
(* C19: a warning for arrays that are not one element wide.                *)
(***************************************************************************)
\* the lines of LineBytes whose payload is an array of two elements, and of
\* none
MultiElementLines == {2}
ZeroElementLines == {4}

WarnCount == Cardinality({i \in 1..Len(log) : log[i] = "warn"})

\* C19: each data line taken from the buffer whose payload is an array of
\* no element or of more than one has logged a warning, so the warnings
\* logged are at least as many as these lines.
C19_WarningUnlessOneWide ==
  WarnCount >=
    Cardinality({j \in ProcessedLines :
                   lineIds[j] \in MultiElementLines \cup ZeroElementLines})

(***************************************************************************)
(* C20: an error thrown into the generator at a yield is absorbed.         *)
(***************************************************************************)
\* throw(e) on the generator suspended at the yield: the error is logged,
\* no error is raised, the call has not failed and goes on, suspended at
\* the yield of the next line in the buffer or waiting for the next chunk.
C20_ThrowAtYield ==
  (ConsumerThrow /\ genState = "suspendedYield") =>
    /\ IsPrefix(Append(log, "error"), log')
    /\ errors' = errors
    /\ outcome' = "none"
    /\ IsPrefix(events, events')
    /\ \/ genState' = "awaitRead" /\ events' = events
       \/ genState' = "suspendedYield" /\ Len(events') = Len(events) + 1

\* a started call ends only by return(), by the end of the stream or by a
\* failure of fetch, of the response or of a read
C20_EndsOnlyBy ==
  (genState \notin {"suspendedStart", "completed"} /\ genState' = "completed") =>
    \/ /\ outcome' = "returned"
       /\ ConsumerReturn \/ \E k \in 1..Len(queue) : queue[k] = "return"
    \/ /\ outcome' = "done"
       /\ genState = "awaitRead"
       /\ events' = events /\ errors' = errors
    \/ /\ outcome' = "failed"
       /\ genState \in {"awaitFetch", "awaitRead"}
       /\ Len(errors') = Len(errors) + 1

\* C20: the yield is inside the try of the line handler, so an error the
\* consumer throws into the generator at a yield is logged like a bad
\* record: the call does not fail, no wrapped error is raised, and the call
\* goes on with the next line or the next read; a started call ends only
\* by a return of the consumer, the end of the stream or a failure of the
\* call.
C20_ConsumerThrowAbsorbed ==
  [][C20_ThrowAtYield /\ C20_EndsOnlyBy]_vars

\* C20 witness: the only line received was well-formed and yielded its
\* event, an error is logged, and the call waits for the next chunk.
C20_Witness ==
  /\ lineIds = <<1>>
  /\ Len(events) = 1
  /\ log = <<"error">>
  /\ genState = "awaitRead"
  /\ outcome = "none"
  /\ errors = <<>>

(***************************************************************************)
(* C18: calls made side by side do not interfere.                          *)
(***************************************************************************)
\* the bytes call i of the pair has been given, and the frame of a call
\* that is given these bytes alone, as one chunk, and pulls every event
PairBytes(i) == SubSeq(LinesBytes(pair[i].lineIds), 1, pair[i].sent)

Alone(i) == OneChunk(PairBytes(i))

\* a stream call of the pair stands as it would alone on its own bytes:
\* its events, its warnings, its buffer and its decoder come from its own
\* bytes, and it has ended as its own transport has
C18_StreamAlone(i) ==
  LET c == pair[i]
      f == pair[i].frame
      own == Decode(<<>>, PairBytes(i)) IN
  c.kind = "stream" =>
    /\ IsPrefix(f.events, Alone(i).events)
    /\ IsPrefix(f.log, Alone(i).log)
    /\ (f.genState = "awaitRead" \/ f.outcome = "done") =>
         /\ f.events = Alone(i).events
         /\ f.log = Alone(i).log
         /\ f.buffer = Alone(i).buffer
    /\ f.buffer = SubSeq(own.text, f.consumed + 1, Len(own.text))
    /\ c.pending = own.pending
    /\ f.outcome = "done" <=> c.transport = "ended"
    /\ f.outcome = "failed" <=> c.transport = "failed"
    /\ Len(f.errors) = (IF f.outcome = "failed" THEN 1 ELSE 0)
    /\ f.outcome \in {"none", "done", "failed"}

\* a generateContent call of the pair ends as its own transport has
C18_ContentAlone(i) ==
  LET c == pair[i].content IN
  pair[i].kind = "content" =>
    /\ c.state = "returned" <=> pair[i].transport = "ended"
    /\ c.state = "raised" <=> pair[i].transport = "failed"
    /\ Len(c.returned) = (IF c.state = "returned" THEN 1 ELSE 0)
    /\ Len(c.errors) = (IF c.state = "raised" THEN 1 ELSE 0)
    /\ c.fetches = 1

\* a step of one call (a chunk, a pull, an end, a failure) leaves the other
\* call as it was
C18_OneCallSteps ==
  \A i \in Calls : \A j \in Calls \ {i} :
    pair'[i] # pair[i] => pair'[j] = pair[j]

\* C18: of two calls on one generator object, two stream calls or a stream
\* call and a generateContent call, with their chunks, pulls, ends and
\* failures interleaved in any order, each yields the events and ends the
\* way it would alone on its own bytes; the bytes one call has buffered
\* never reach the other, and the failure of one leaves the other as it
\* was.
C18_CallsIndependent ==
  /\ [](\A i \in Calls : C18_StreamAlone(i) /\ C18_ContentAlone(i))
  /\ [][C18_OneCallSteps]_vars

\* C18 witness: the first call has failed in a read with part of a line in
\* its buffer, and the second has yielded its event and seen the end of
\* its stream.
C18_Witness ==
  /\ pair[1].kind = "stream"
  /\ pair[1].frame.outcome = "failed"
  /\ pair[1].frame.buffer # <<>>
  /\ pair[2].kind = "stream"
  /\ pair[2].frame.outcome = "done"
  /\ Len(pair[2].frame.events) = 1

=============================================================================
